---------------------------- MODULE Spec2Model ----------------------------
(***************************************************************************)
(* A model of generate_mock_data.py: the key-value (.am) parser, the       *)
(* signal synthesizer and the batch pipeline of main() with its file       *)
(* handles and failure exits.                                              *)
(*                                                                         *)
(* A float is the rational <<num, den>> it was written as or computed to,  *)
(* standing for the double nearest to it; where the program's result       *)
(* depends on the rounding of doubles (the length of np.arange) the model  *)
(* computes that rounding.  Text is a sequence of one-character strings.   *)
(***************************************************************************)
EXTENDS Integers, Sequences, FiniteSets, TLC

VARIABLES
    pc,          \* position of main(): the statement about to run, or "exit"
    status,      \* outcome of the process: "running", "ok" or the error raised
    missing,     \* the required flags argv does not give with a value
    extra_args,  \* the arguments of argv after the flags given with a value
    handles,     \* the files whose handle is open
    loaded,      \* the input files read to their end so far
    sigs,        \* line 63: the loaded signature objects
    sig_meta,    \* line 63: the parsed signature metadata
    inst,        \* line 64: the parsed instrument specification
    sr,          \* line 66
    duration,    \* line 67
    out_nd,      \* line 70: the records synthesized so far
    out_ndjson,  \* the file at --output-ndjson: [touched, rows]
    out_meta,    \* the file at --output-meta: [touched, chunks written]
    stdout,      \* the lines printed
    am_lines,    \* parse_key_value_am: the lines of the file read so far
    am_meta,     \* parse_key_value_am: its dict `meta`
    am_done,     \* parse_key_value_am: it has returned
    syn_in,      \* synthesize_signal: its arguments
    syn_out      \* synthesize_signal: its result, once it has returned

vars == <<pc, status, missing, extra_args, handles, loaded, sigs, sig_meta, inst, sr, duration,
          out_nd, out_ndjson, out_meta, stdout, am_lines, am_meta, am_done,
          syn_in, syn_out>>

mainVars == <<pc, status, missing, extra_args, handles, loaded, sigs, sig_meta, inst, sr,
              duration, out_nd, out_ndjson, out_meta, stdout>>
amVars == <<am_lines, am_meta, am_done>>
synVars == <<syn_in, syn_out>>

----------------------------------------------------------------------------
(* Bounds of the model *)

MaxLineLen == 2      \* characters in a line of a key-value file
MaxLines == 2        \* lines in a key-value file
MaxSigs == 2         \* lines in the signatures file
MaxNoiseDraw == 1    \* the noise vectors randn can return are 0..MaxNoiseDraw
MaxExtraArgs == 2    \* arguments of argv after the flags given with a value
MaxRate == 70        \* sampling rates are 1 .. MaxRate
MaxDurQuarters == 5  \* durations are 1/4 .. MaxDurQuarters/4 seconds
MaxWidthEighths == 2 \* widths are -1/8 .. MaxWidthEighths/8 seconds

----------------------------------------------------------------------------
(* Exact rational arithmetic standing for Python's float *)

RECURSIVE GCD(_, _)
GCD(a, b) == IF b = 0 THEN a ELSE GCD(b, a % b)

Abs(x) == IF x < 0 THEN -x ELSE x

Rat(n, d) ==
    LET g == GCD(Abs(n), Abs(d))
        s == IF d < 0 THEN -1 ELSE 1
    IN  <<(s * n) \div g, (s * d) \div g>>

RatInt(k) == <<k, 1>>
RatDiv(a, b) == Rat(a[1] * b[2], a[2] * b[1])
RatMul(a, b) == Rat(a[1] * b[1], a[2] * b[2])
RatSub(a, b) == Rat(a[1] * b[2] - b[1] * a[2], a[2] * b[2])
RatGt(a, b) == a[1] * b[2] > b[1] * a[2]

\* floor and ceiling of a rational with positive denominator
RatFloor(a) == a[1] \div a[2]
RatCeil(a) == -((-a[1]) \div a[2])

\* Python's int(x) of a float: truncation toward zero
RatTrunc(a) == IF a[1] >= 0 THEN RatFloor(a) ELSE RatCeil(a)

\* Python's round(x): to the nearest integer, ties to the even one
RatRound(a) ==
    LET f == RatFloor(a)
        twice == 2 * (a[1] - f * a[2])     \* 2 * fractional part * den
    IN  IF twice < a[2] THEN f
        ELSE IF twice > a[2] THEN f + 1
        ELSE IF f % 2 = 0 THEN f ELSE f + 1

RECURSIVE Pow(_, _)
Pow(b, e) == IF e = 0 THEN 1 ELSE b * Pow(b, e - 1)

----------------------------------------------------------------------------
(* Python values: None, int, float and str *)

NoneVal == [t |-> "none", q |-> <<0, 1>>, s |-> <<>>]
IntVal(k) == [t |-> "int", q |-> <<k, 1>>, s |-> <<>>]
FloatVal(r) == [t |-> "float", q |-> r, s |-> <<>>]
StrVal(cs) == [t |-> "str", q |-> <<0, 1>>, s |-> cs]

IsNumber(v) == v.t \in {"int", "float"}

\* v == w of two values: numbers compare by value (1 == 1.0)
PyEq(v, w) == IF IsNumber(v) /\ IsNumber(w) THEN v.q = w.q ELSE v = w

Digits == <<"0", "1", "2", "3", "4", "5", "6", "7", "8", "9">>
DigitSet == {Digits[i] : i \in 1..10}
DigitOf(c) == (CHOOSE i \in 1..10 : Digits[i] = c) - 1

\* str(k) of an int
RECURSIVE IntStr(_)
IntStr(k) ==
    IF k < 0 THEN <<"-">> \o IntStr(-k)
    ELSE IF k < 10 THEN <<Digits[k + 1]>>
    ELSE IntStr(k \div 10) \o <<Digits[(k % 10) + 1]>>

\* the digits of num/den after the decimal point, for a terminating decimal
RECURSIVE FracStr(_, _)
FracStr(num, den) ==
    IF num = 0 THEN <<>>
    ELSE <<Digits[((10 * num) \div den) + 1]>>
             \o FracStr((10 * num) % den, den)

\* the least e with x * 10^e >= 1, for 0 < x < 1
RECURSIVE DecimalShift(_)
DecimalShift(x) ==
    IF x[1] >= x[2] THEN 0 ELSE 1 + DecimalShift(<<10 * x[1], x[2]>>)

\* repr(x) of a float written as a short terminating decimal: positional
\* from 1e-04 on, with an exponent below (the model holds no float from
\* 1e16 on, where the exponent form returns)
FloatStr(r) ==
    LET a == Abs(r[1])
        sign == IF r[1] < 0 THEN <<"-">> ELSE <<>>
        e == IF a = 0 THEN 0 ELSE DecimalShift(<<a, r[2]>>)
        m == Rat(a * Pow(10, e), r[2])
    IN  IF e <= 4
        THEN sign \o IntStr(a \div r[2]) \o <<".">>
             \o (IF a % r[2] = 0 THEN <<"0">> ELSE FracStr(a % r[2], r[2]))
        ELSE sign \o IntStr(m[1] \div m[2])
             \o (IF m[1] % m[2] = 0 THEN <<>>
                 ELSE <<".">> \o FracStr(m[1] % m[2], m[2]))
             \o <<"e", "-">> \o (IF e < 10 THEN <<"0">> ELSE <<>>) \o IntStr(e)

\* format(v, '') as an f-string placeholder renders v
PyStr(v) ==
    CASE v.t = "none" -> <<"N", "o", "n", "e">>
      [] v.t = "int" -> IntStr(v.q[1])
      [] v.t = "float" -> FloatStr(v.q)
      [] v.t = "str" -> v.s

\* truthiness of a value, as `or` tests it
Truthy(v) ==
    CASE v.t = "none" -> FALSE
      [] v.t = "str" -> v.s # <<>>
      [] OTHER -> v.q[1] # 0

----------------------------------------------------------------------------
(* Text as the parser scans it: sequences of one-character strings *)

\* str.isspace() of a character: blank, \t, \n, \r, \f, VT (0x0b), the
\* separators 0x1c-0x1f, NEL (0x85) and NBSP (0xa0); the whitespace beyond
\* U+00FF cannot be written in a module and is outside the model
IsSpace(c) ==
    c \in {" ", "\t", "\n", "\r", "\f", "", "", "", "", "", "", " "}

RECURSIVE LStrip(_)
LStrip(cs) ==
    IF cs # <<>> /\ IsSpace(Head(cs)) THEN LStrip(Tail(cs)) ELSE cs

RECURSIVE RStrip(_)
RStrip(cs) ==
    IF cs # <<>> /\ IsSpace(cs[Len(cs)])
    THEN RStrip(SubSeq(cs, 1, Len(cs) - 1)) ELSE cs

\* str.strip()
Strip(cs) == RStrip(LStrip(cs))

\* the characters joined into one string
RECURSIVE Join(_)
Join(cs) == IF cs = <<>> THEN "" ELSE Head(cs) \o Join(Tail(cs))

HasColon(line) == \E i \in 1..Len(line) : line[i] = ":"

RECURSIVE FindColon(_, _)
FindColon(line, k) == IF line[k] = ":" THEN k ELSE FindColon(line, k + 1)

\* line.split(':', 1) of a line that holds a colon
SplitColon(line) ==
    LET k == FindColon(line, 1)
    IN  <<SubSeq(line, 1, k - 1), SubSeq(line, k + 1, Len(line))>>

AllDigits(cs) == \A i \in 1..Len(cs) : cs[i] \in DigitSet

RECURSIVE DecValue(_)
DecValue(cs) ==
    IF cs = <<>> THEN 0
    ELSE 10 * DecValue(SubSeq(cs, 1, Len(cs) - 1)) + DigitOf(cs[Len(cs)])

\* a decimal integer literal: digits, with no leading zero unless all are zero
IsIntLiteral(cs) ==
    /\ cs # <<>>
    /\ AllDigits(cs)
    /\ (cs[1] = "0" => \A i \in 1..Len(cs) : cs[i] = "0")

\* a point float literal: digits '.' digits with a digit on one side at least
IsFloatLiteral(cs) ==
    \E k \in 1..Len(cs) :
        /\ cs[k] = "."
        /\ AllDigits(SubSeq(cs, 1, k - 1))
        /\ AllDigits(SubSeq(cs, k + 1, Len(cs)))
        /\ Len(cs) > 1

FloatLiteralValue(cs) ==
    LET k == CHOOSE i \in 1..Len(cs) : cs[i] = "."
        ip == SubSeq(cs, 1, k - 1)
        fp == SubSeq(cs, k + 1, Len(cs))
    IN  Rat(DecValue(ip) * Pow(10, Len(fp)) + DecValue(fp), Pow(10, Len(fp)))

\* ast.literal_eval(val) falling back to val itself, lines 25-28, on text
\* made of digits, '.', ':', blanks and letters that spell no Python literal
\* (no sign, quote, bracket, exponent or prefix, and no '...')
literal_eval_or_raw(val) ==
    IF IsIntLiteral(val) THEN IntVal(DecValue(val))
    ELSE IF IsFloatLiteral(val) THEN FloatVal(FloatLiteralValue(val))
    ELSE StrVal(val)

\* text with an optional leading sign: the sign and the rest
SignOf(cs) == IF cs # <<>> /\ cs[1] = "-" THEN -1 ELSE 1
Unsigned(cs) == IF cs # <<>> /\ cs[1] \in {"+", "-"} THEN Tail(cs) ELSE cs

\* digits with at most one '.', one digit at least
IsPointNumber(cs) ==
    /\ \A i \in 1..Len(cs) : cs[i] \in DigitSet \cup {"."}
    /\ Cardinality({i \in 1..Len(cs) : cs[i] = "."}) <= 1
    /\ \E i \in 1..Len(cs) : cs[i] \in DigitSet

PointNumberValue(cs) ==
    IF \E i \in 1..Len(cs) : cs[i] = "." THEN FloatLiteralValue(cs)
    ELSE <<DecValue(cs), 1>>

ExponentAt(cs) == {i \in 1..Len(cs) : cs[i] \in {"e", "E"}}

\* the text float() accepts, its whitespace skipped: [sign] point-number [e [sign] digits]
\* (text with '_', 'inf' or 'nan' is outside the model)
IsFloatText(cs) ==
    LET b == Unsigned(cs)
    IN  \/ IsPointNumber(b)
        \/ \E k \in ExponentAt(b) :
              /\ IsPointNumber(SubSeq(b, 1, k - 1))
              /\ Unsigned(SubSeq(b, k + 1, Len(b))) # <<>>
              /\ AllDigits(Unsigned(SubSeq(b, k + 1, Len(b))))

FloatTextValue(cs) ==
    LET b == Unsigned(cs)
        m == IF ExponentAt(b) = {} THEN b
             ELSE SubSeq(b, 1, (CHOOSE k \in ExponentAt(b) : TRUE) - 1)
        x == IF ExponentAt(b) = {} THEN <<>>
             ELSE SubSeq(b, (CHOOSE k \in ExponentAt(b) : TRUE) + 1, Len(b))
        e == SignOf(x) * DecValue(Unsigned(x))
        v == PointNumberValue(m)
    IN  IF e >= 0 THEN Rat(SignOf(cs) * v[1] * Pow(10, e), v[2])
        ELSE Rat(SignOf(cs) * v[1], v[2] * Pow(10, -e))

\* the whitespace float() and int() skip around the number: that of
\* str.strip() without the separators 0x1c-0x1f
IsNumberSpace(c) == c \in {" ", "\t", "\n", "\r", "\f", "", "", " "}

RECURSIVE NumberLStrip(_)
NumberLStrip(cs) ==
    IF cs # <<>> /\ IsNumberSpace(Head(cs)) THEN NumberLStrip(Tail(cs)) ELSE cs

RECURSIVE NumberRStrip(_)
NumberRStrip(cs) ==
    IF cs # <<>> /\ IsNumberSpace(cs[Len(cs)])
    THEN NumberRStrip(SubSeq(cs, 1, Len(cs) - 1)) ELSE cs

NumberStrip(cs) == NumberRStrip(NumberLStrip(cs))

\* float(v): "ok", or the exception it raises
float_outcome(v) ==
    CASE IsNumber(v) -> "ok"
      [] v.t = "str" -> IF IsFloatText(NumberStrip(v.s)) THEN "ok"
                        ELSE "value_error"
      [] OTHER -> "type_error"

\* float(v) where it returns
float_value(v) ==
    IF v.t = "str" THEN FloatTextValue(NumberStrip(v.s)) ELSE v.q

\* the text int() accepts, its whitespace skipped: [sign] digits (text with '_' is outside
\* the model)
IsIntText(cs) == Unsigned(cs) # <<>> /\ AllDigits(Unsigned(cs))

\* int(v): "ok", or the exception it raises
int_outcome(v) ==
    CASE IsNumber(v) -> "ok"
      [] v.t = "str" -> IF IsIntText(NumberStrip(v.s)) THEN "ok"
                        ELSE "value_error"
      [] OTHER -> "type_error"

\* int(v) where it returns
int_value(v) ==
    IF v.t = "str"
    THEN SignOf(NumberStrip(v.s)) * DecValue(Unsigned(NumberStrip(v.s)))
    ELSE RatTrunc(v.q)

----------------------------------------------------------------------------
(* parse_key_value_am, lines 14-29 *)

EmptyDict == [k \in {} |-> NoneVal]

DictSet(m, key, v) ==
    [k \in DOMAIN m \cup {key} |-> IF k = key THEN v ELSE m[k]]

\* dict.get(key, default)
DictGet(m, key, default) == IF key \in DOMAIN m THEN m[key] ELSE default

\* a slip: a key already present keeps its first value
parse_line_keep_first(meta, line) ==
    IF ~HasColon(line) THEN meta
    ELSE LET kv == SplitColon(line)
             key == Join(Strip(kv[1]))
             val == Strip(kv[2])
         IN  IF key \in DOMAIN meta THEN meta
             ELSE DictSet(meta, key, literal_eval_or_raw(val))

\* one pass of the loop body, lines 19-28
parse_line(meta, line) ==
    IF ~HasColon(line) THEN meta
    ELSE LET kv == SplitColon(line)
             key == Join(Strip(kv[1]))
             val == Strip(kv[2])
         IN  DictSet(meta, key, literal_eval_or_raw(val))

RECURSIVE parse_lines(_, _)
parse_lines(meta, lines) ==
    IF lines = <<>> THEN meta
    ELSE parse_lines(parse_line(meta, Head(lines)), Tail(lines))

parse_key_value_am(lines) == parse_lines(EmptyDict, lines)


----------------------------------------------------------------------------
(* synthesize_signal, lines 38-51 *)

\* floor(log2(a/b)) of a positive rational
RECURSIVE Lg(_, _)
Lg(a, b) ==
    IF a < b THEN Lg(2 * a, b) - 1
    ELSE IF a >= 2 * b THEN Lg(a, 2 * b) + 1
    ELSE 0

\* 2^e mod m, by repeated squaring
RECURSIVE PowMod2(_, _)
PowMod2(e, m) ==
    IF e = 0 THEN 1 % m
    ELSE LET h == PowMod2(e \div 2, m)
         IN  IF e % 2 = 0 THEN (h * h) % m ELSE (2 * h * h) % m

\* (x * 2^e) mod m
ShiftMod(x, e, m) == ((x % m) * PowMod2(e, m)) % m

\* The rounding of a positive rational q = a/b to the nearest double fl(q):
\* with 2^52 <= q * 2^s < 2^53 the double is D * 2^-s, D the integer nearest
\* to q * 2^s, and D * b - a * 2^s is the residue computed here.  (A tie
\* needs b = 2^(s+1), which no rational of the model has.)
RoundResidue(q) ==
    LET s == 52 - Lg(q[1], q[2])
        m == ShiftMod(q[1], s, q[2])
    IN  IF 2 * m < q[2] THEN -m ELSE q[2] - m

\* (fl(q) - q) / q * 2^53, the relative rounding error of q in units of 2^-53
RoundError(q) ==
    LET k == 1 + Lg(q[1], q[2])
    IN  IF k >= 0 THEN Rat(RoundResidue(q) * Pow(2, k), q[1])
        ELSE Rat(RoundResidue(q), q[1] * Pow(2, -k))

\* ceil(fl(fl(stop) / fl(step))) for positive stop and step.  With
\* Y = stop/step exact and X = fl(stop)/fl(step) = Y (1 + es) / (1 + ep):
\* when Y is no integer X lies strictly between its neighbours and the
\* ceiling is ceil(Y); when Y = N the ceiling is N + 1 exactly if the
\* quotient rounds to a double above N, that is if X - N exceeds half the
\* gap 2^(e-52) between N and the next double, e = floor(log2 N); to first
\* order X - N is N (es - ep), and at equality the sign of ep decides.
double_quotient_ceil(stop, step) ==
    LET Y == RatDiv(stop, step)
        N == RatFloor(Y)
        excess == RatMul(RatInt(N), RatSub(RoundError(stop), RoundError(step)))
        half == <<Pow(2, Lg(N, 1)), 1>>
    IN  IF Y[2] # 1 THEN N + 1
        ELSE IF RatGt(excess, half) THEN N + 1
        ELSE IF excess = half /\ RoundError(step)[1] < 0 THEN N + 1
        ELSE N

\* len(np.arange(0, stop, step)) for a step other than 0:
\* ceil((stop - 0) / step) with the division done in doubles, and no
\* element when the quotient is not positive; the quotient of two negative
\* numbers is that of their absolute values
arange_len(stop, step) ==
    IF stop[1] * step[1] <= 0 THEN 0
    ELSE double_quotient_ceil(<<Abs(stop[1]), stop[2]>>,
                              <<Abs(step[1]), step[2]>>)

\* a slip: `width >= 0` lets a zero width through
envelope_std_ge(width, dur) ==
    IF ~RatGt(<<0, 1>>, width) THEN width ELSE RatDiv(dur, <<8, 1>>)

\* line 46
envelope_std(width, dur) ==
    IF RatGt(width, <<0, 1>>) THEN width ELSE RatDiv(dur, <<8, 1>>)

\* The returned series `signal + noise`, as the quantities that determine it:
\* sample i (0 <= i < n) is
\*   amp * sin(2 pi freq t) * exp(-0.5 ((t - mid)/std)^2) + noise_sd * z[i]
\* with t = i * step and z the noise vector numbered `draw`.
synthesize_signal(freq, width, amp, sampling_rate, dur, draw) ==
    LET step == RatDiv(<<1, 1>>, RatInt(sampling_rate))
    IN  [n |-> arange_len(dur, step),
         step |-> step,
         amp |-> amp,
         freq |-> freq,
         mid |-> RatDiv(dur, <<2, 1>>),
         std |-> envelope_std(width, dur),
         noise_sd |-> RatMul(<<1, 20>>, amp),
         draw |-> draw]

NoiseDraws == 0..MaxNoiseDraw

----------------------------------------------------------------------------
(* Idle values of the variables a specification does not use *)

MainIdle ==
    /\ pc = "idle" /\ status = "idle" /\ missing = {} /\ extra_args = <<>>
    /\ handles = {}
    /\ loaded = {}
    /\ sigs = <<>> /\ sig_meta = EmptyDict /\ inst = EmptyDict
    /\ sr = 0 /\ duration = NoneVal /\ out_nd = <<>>
    /\ out_ndjson = [touched |-> FALSE, rows |-> <<>>]
    /\ out_meta = [touched |-> FALSE, chunks |-> <<>>]
    /\ stdout = <<>>

AmIdle == am_lines = <<>> /\ am_meta = EmptyDict /\ am_done = FALSE

SynIdle == syn_in = <<>> /\ syn_out = <<>>

----------------------------------------------------------------------------
(* Specification SpecParse: parse_key_value_am on every small file *)

Alphabet == {" ", ":", "1", "a"}

\* lines padded with whitespace other than the blank
PaddedLines ==
    { <<"\f", "a", "\t", ":", " ", "1", "\r", "\n">>,
      <<"", "a", ":", "", "1", "", "\n">>,
      <<"a", ":", "", "a", "\f", "1", "", "", "\n">> }

Lines == UNION {[1..n -> Alphabet] : n \in 0..MaxLineLen} \cup PaddedLines

InitParse == MainIdle /\ SynIdle /\ AmIdle

\* lines 18-28: the loop takes the next line of the file
ReadLine ==
    /\ ~am_done
    /\ Len(am_lines) < MaxLines
    /\ \E line \in Lines :
        /\ am_lines' = Append(am_lines, line)
        /\ am_meta' = parse_line(am_meta, line)
    /\ UNCHANGED <<am_done, mainVars, synVars>>

\* line 29: end of file, the dict is returned
ReturnMeta ==
    /\ ~am_done
    /\ am_done' = TRUE
    /\ UNCHANGED <<am_lines, am_meta, mainVars, synVars>>

NextParse == ReadLine \/ ReturnMeta

SpecParse == InitParse /\ [][NextParse]_vars

----------------------------------------------------------------------------
(* Specification SpecSynth: synthesize_signal on a grid of arguments *)

SynRates == (1..MaxRate) \cup {-4}
SynDurations ==
    {Rat(k, 4) : k \in 1..MaxDurQuarters} \cup {<<1, 10>>, <<-1, 1>>}
SynWidths == {Rat(k, 8) : k \in (-1)..MaxWidthEighths}
SynFreqs == {<<0, 1>>, <<10, 1>>}
SynAmps == {<<1, 1>>, <<2, 1>>}

InitSynth ==
    /\ MainIdle /\ AmIdle
    /\ syn_in \in {<<[freq |-> f, width |-> w, amp |-> a,
                      sampling_rate |-> r, dur |-> d]>> :
                     f \in SynFreqs, w \in SynWidths, a \in SynAmps,
                     r \in SynRates, d \in SynDurations}
    /\ syn_out = <<>>

\* one call of synthesize_signal; randn returns any noise vector
Synthesize ==
    /\ syn_out = <<>>
    /\ \E draw \in NoiseDraws :
        syn_out' = <<synthesize_signal(syn_in[1].freq, syn_in[1].width,
                                       syn_in[1].amp, syn_in[1].sampling_rate,
                                       syn_in[1].dur, draw)>>
    /\ UNCHANGED <<syn_in, mainVars, amVars>>

NextSynth == Synthesize

SpecSynth == InitSynth /\ [][NextSynth]_vars


----------------------------------------------------------------------------
(* Properties of parse_key_value_am, under SpecParse *)

\* the position of the first colon of a line that has one
FirstColonAt(line) ==
    CHOOSE i \in 1..Len(line) :
        line[i] = ":" /\ \A j \in 1..(i - 1) : line[j] # ":"

KeyText(line) == Join(Strip(SubSeq(line, 1, FirstColonAt(line) - 1)))
ValueText(line) == Strip(SubSeq(line, FirstColonAt(line) + 1, Len(line)))

ColonLinesAt(lines) == {i \in 1..Len(lines) : HasColon(lines[i])}

LastLineWithKey(lines, key) ==
    CHOOSE i \in ColonLinesAt(lines) :
        /\ KeyText(lines[i]) = key
        /\ \A j \in ColonLinesAt(lines) : KeyText(lines[j]) = key => j <= i

\* C4: the returned dict has exactly the trimmed texts before the first colon
\* of the colon-holding lines as keys; each key maps to the value of the text
\* after the first colon of the last line carrying it, which is the raw
\* trimmed text when that text is no literal; other lines contribute nothing.
C4_ParseLastWins ==
    am_done =>
        /\ DOMAIN am_meta = {KeyText(am_lines[i]) : i \in ColonLinesAt(am_lines)}
        /\ \A key \in DOMAIN am_meta :
            LET text == ValueText(am_lines[LastLineWithKey(am_lines, key)])
            IN  /\ am_meta[key] = literal_eval_or_raw(text)
                /\ am_meta[key].t = "str" => am_meta[key].s = text
                /\ (text # <<>> /\ \A i \in 1..Len(text) : text[i] = "1")
                       => am_meta[key].t = "int"

\* a file whose two lines carry the same key with different values, the
\* second one no literal
C4_Witness ==
    /\ am_done
    /\ Len(am_lines) = 2
    /\ HasColon(am_lines[1]) /\ HasColon(am_lines[2])
    /\ KeyText(am_lines[1]) = KeyText(am_lines[2])
    /\ literal_eval_or_raw(ValueText(am_lines[1])).t = "int"
    /\ am_meta[KeyText(am_lines[2])].t = "str"
    /\ am_meta[KeyText(am_lines[2])].s # <<>>

----------------------------------------------------------------------------
(* Properties of synthesize_signal, under SpecSynth *)

SynProduct == RatMul(syn_in[1].dur, RatInt(syn_in[1].sampling_rate))

\* C3: for positive sampling_rate and duration the series has
\* round(duration * sampling_rate) samples.
C3_RoundCount ==
    (syn_out # <<>> /\ syn_in[1].sampling_rate > 0 /\ syn_in[1].dur[1] > 0)
        => syn_out[1].n = RatRound(SynProduct)

\* C7: with width <= 0 the call returns, and returns what the call with
\* width = duration/8 returns on the same noise draw; with width > 0 the
\* envelope's standard deviation is the width.
C7_WidthFallback ==
    syn_out # <<>> =>
        LET a == syn_in[1]
            eighth == RatDiv(a.dur, <<8, 1>>)
        IN  IF RatGt(a.width, <<0, 1>>)
            THEN syn_out[1].std = a.width
            ELSE /\ syn_out[1].std = eighth
                 /\ syn_out[1] = synthesize_signal(a.freq, eighth, a.amp,
                                     a.sampling_rate, a.dur, syn_out[1].draw)

\* a call with width 0 has returned
C7_Witness ==
    /\ syn_out # <<>>
    /\ syn_in[1].width = <<0, 1>>
    /\ syn_out[1].std = RatDiv(syn_in[1].dur, <<8, 1>>)


----------------------------------------------------------------------------
(* The inputs of main(): argv and the three input files *)

Flags == {"signatures", "signature_meta", "instrument_spec",
          "output_ndjson", "output_meta"}

\* argv is `--flag value` for every required flag not in `missing`, then
\* the arguments of extra_args.  "--help" stands for any spelling argparse
\* resolves to the help option (-h, --help, --h, --he, --hel), "--bogus" for
\* an option the parser does not know, "--signatures" for a required flag
\* that is followed by no value (the next argument is an option, or there is
\* none), "--" for the separator that ends the options.
ArgTokens == {"--help", "--bogus", "--", "--signatures"}

ArgTails == UNION {[1..n -> ArgTokens] : n \in 0..MaxExtraArgs}

\* a JSON object of the signatures file: each field main() reads is absent
\* or holds a value, and `other` holds what the object carries besides (a
\* field "note"); a line that is not valid JSON has json_ok = FALSE
AbsentVal == [t |-> "absent", q |-> <<0, 1>>, s |-> <<>>]

SigFields == {"label", "frequency", "width", "amplitude", "other"}

Signature(l, f, w, a, o) ==
    [json_ok |-> TRUE, label |-> l, frequency |-> f, width |-> w,
     amplitude |-> a, other |-> o]

BadJsonLine ==
    [json_ok |-> FALSE, label |-> AbsentVal, frequency |-> AbsentVal,
     width |-> AbsentVal, amplitude |-> AbsentVal, other |-> AbsentVal]

SigLines ==
    { Signature(AbsentVal, AbsentVal, AbsentVal, AbsentVal, AbsentVal),
      Signature(StrVal(<<"s", "1">>), StrVal(<<"\f", "1", "e", "1", " ">>),
                FloatVal(<<1, 10>>), FloatVal(<<2, 1>>), AbsentVal),
      Signature(StrVal(<<>>), AbsentVal, IntVal(0), AbsentVal, AbsentVal),
      Signature(StrVal(<<>>), AbsentVal, FloatVal(<<0, 1>>), AbsentVal,
                AbsentVal),
      Signature(AbsentVal, AbsentVal, AbsentVal, NoneVal, AbsentVal),
      Signature(AbsentVal, StrVal(<<"", "1">>), AbsentVal, AbsentVal,
                AbsentVal),
      Signature(AbsentVal, AbsentVal, AbsentVal, AbsentVal, StrVal(<<"a">>)),
      BadJsonLine }

SigFiles == UNION {[1..n -> SigLines] : n \in 0..MaxSigs}

\* the text of the key-value files, line by line
K_TheoryVariant == <<"T", "h", "e", "o", "r", "y", "V", "a", "r", "i", "a", "n", "t">>
K_SamplingRate == <<"S", "a", "m", "p", "l", "i", "n", "g", "R", "a", "t", "e">>
K_Duration == <<"D", "u", "r", "a", "t", "i", "o", "n">>
K_InstrumentType == <<"I", "n", "s", "t", "r", "u", "m", "e", "n", "t", "T", "y", "p", "e">>
K_NoiseModel == <<"N", "o", "i", "s", "e", "M", "o", "d", "e", "l">>

KeyValueLine(key, text) == key \o <<":", " ">> \o text \o <<"\n">>

MetaFiles ==
    { <<>>,
      << KeyValueLine(K_TheoryVariant, <<"L", "Q", "G">>) >>,
      << <<"#", " ", "m", "e", "t", "a", "\n">>,
         KeyValueLine(K_TheoryVariant, <<"1", ".", "5">>) >> }

OptLine(present, line) == IF present THEN <<line>> ELSE <<>>

RateTexts == {<<>>, <<"1", "6">>, <<"0", "1", "6">>, <<"0">>, <<"x">>}
DurationTexts == {<<>>, <<"0", ".", "2", "5">>, <<"x">>}

\* the instrument specifications: every rate text with every duration text,
\* and with InstrumentType and NoiseModel when the duration is the default
InstChoices ==
    {c \in RateTexts \X DurationTexts \X BOOLEAN : c[3] => c[2] = <<>>}

InstFiles ==
    { OptLine(c[1] # <<>>, KeyValueLine(K_SamplingRate, c[1]))
        \o OptLine(c[2] # <<>>, KeyValueLine(K_Duration, c[2]))
        \o OptLine(c[3], KeyValueLine(K_InstrumentType, <<"L", "I", "G", "O">>))
        \o OptLine(c[3], KeyValueLine(K_NoiseModel, <<"w", "h", "i", "t", "e">>)) :
        c \in InstChoices }

----------------------------------------------------------------------------
(* main(), lines 53-99 *)

DefaultSamplingRate == 4096

\* a == b of two objects of the signatures file
SigEq(a, b) == \A k \in SigFields : PyEq(a[k], b[k])

\* list.index(x): the 0-based position of the first element equal to x
list_index(list, x) ==
    (CHOOSE i \in 1..Len(list) :
        SigEq(list[i], x) /\ \A j \in 1..(i - 1) : ~SigEq(list[j], x)) - 1

\* sig.get(field): None when the field is absent
SigGet(v) == IF v.t = "absent" THEN NoneVal ELSE v

\* line 72
record_label(all, sig, meta) ==
    IF Truthy(SigGet(sig.label)) THEN sig.label
    ELSE StrVal(PyStr(DictGet(meta, "TheoryVariant", StrVal(<<"s", "i", "g">>)))
                \o <<"_">> \o IntStr(list_index(all, sig) + 1))

\* sig.get(field, default) of lines 73-75
SigGetOr(v, default) == IF v.t = "absent" THEN default ELSE v

\* a slip: no blank between the count and the closing bracket
summary_writes_tight(spec, rate, count) ==
    << "[ ",
       "InstrumentType = "
           \o Join(PyStr(DictGet(spec, "InstrumentType", NoneVal)))
           \o ", ",
       "SamplingRate = " \o Join(IntStr(rate)) \o ", ",
       "NoiseModel = " \o Join(PyStr(DictGet(spec, "NoiseModel", NoneVal)))
           \o ", ",
       "InjectionCount = " \o Join(IntStr(count)),
       "]\n" >>

\* lines 91-96: the six writes of the summary
summary_writes(spec, rate, count) ==
    << "[ ",
       "InstrumentType = "
           \o Join(PyStr(DictGet(spec, "InstrumentType", NoneVal)))
           \o ", ",
       "SamplingRate = " \o Join(IntStr(rate)) \o ", ",
       "NoiseModel = " \o Join(PyStr(DictGet(spec, "NoiseModel", NoneVal)))
           \o ", ",
       "InjectionCount = " \o Join(IntStr(count)) \o " ",
       "]\n" >>

\* the text of a file: the chunks written to it, end to end
RECURSIVE Concat(_)
Concat(parts) == IF parts = <<>> THEN "" ELSE Head(parts) \o Concat(Tail(parts))

\* an uncaught exception: the with block it leaves closes its file, and the
\* process ends
Exit(outcome, closing) ==
    /\ pc' = "exit"
    /\ status' = outcome
    /\ handles' = handles \ closing

Init ==
    /\ AmIdle /\ SynIdle
    /\ pc = "parse_args"
    /\ status = "running"
    /\ missing \in SUBSET Flags
    /\ extra_args \in ArgTails
    /\ handles = {}
    /\ loaded = {}
    /\ sigs = <<>> /\ sig_meta = EmptyDict /\ inst = EmptyDict
    /\ sr = 0 /\ duration = NoneVal /\ out_nd = <<>>
    /\ out_ndjson = [touched |-> FALSE, rows |-> <<>>]
    /\ out_meta = [touched |-> FALSE, chunks |-> <<>>]
    /\ stdout = <<>>

\* line 60, the scan of parse_args over the arguments left to right: the
\* help action ends it at once ("help"), and so does an option that lacks
\* its value ("error"); an unknown option, the separator `--` and whatever
\* follows the separator are kept as unrecognized ("extras" at the end,
\* "clean" when there are none)
RECURSIVE scan_args(_, _, _)
scan_args(args, after_separator, extras) ==
    IF args = <<>> THEN (IF extras THEN "extras" ELSE "clean")
    ELSE IF after_separator THEN scan_args(Tail(args), TRUE, TRUE)
    ELSE CASE Head(args) = "--help" -> "help"
           [] Head(args) = "--signatures" -> "error"
           [] Head(args) = "--" -> scan_args(Tail(args), TRUE, TRUE)
           [] Head(args) = "--bogus" -> scan_args(Tail(args), FALSE, TRUE)

\* line 60: what parse_args does: it returns ("ok"), prints the help and
\* exits with status 0 ("help"), or reports an error and exits with status 2
\* ("usage_error": an option without its value, a required flag not given,
\* an unrecognized argument)
parse_args_outcome(absent, args) ==
    LET scan == scan_args(args, FALSE, FALSE)
    IN  IF scan = "help" THEN "help"
        ELSE IF scan = "clean" /\ absent = {} THEN "ok"
        ELSE "usage_error"

\* a slip: the flags are not declared required, so parsing always succeeds
ParseArgsLenient ==
    /\ pc = "parse_args"
    /\ pc' = "open_signatures"
    /\ UNCHANGED <<status, missing, extra_args, loaded, handles, sigs, sig_meta,
                   inst, sr, duration, out_nd, out_ndjson, out_meta, stdout,
                   amVars, synVars>>

\* line 60: argparse accepts the command line
ParseArgs ==
    /\ pc = "parse_args"
    /\ parse_args_outcome(missing, extra_args) = "ok"
    /\ pc' = "open_signatures"
    /\ UNCHANGED <<status, missing, extra_args, loaded, handles, sigs, sig_meta,
                   inst, sr, duration, out_nd, out_ndjson, out_meta, stdout,
                   amVars, synVars>>

\* line 60: the scan reaches the help option; its action prints the help and
\* exits with status 0, before the required flags are checked and the
\* unrecognized arguments are reported
ParseArgsHelp ==
    /\ pc = "parse_args"
    /\ parse_args_outcome(missing, extra_args) = "help"
    /\ stdout' = <<"usage: <help>">>
    /\ Exit("help", {})
    /\ UNCHANGED <<missing, extra_args, loaded, sigs, sig_meta, inst, sr,
                   duration, out_nd, out_ndjson, out_meta, amVars, synVars>>

\* line 60: an option lacks its value, a required flag is missing, or an
\* argument is not recognised; argparse prints the usage to stderr and exits
\* with status 2
ParseArgsFails ==
    /\ pc = "parse_args"
    /\ parse_args_outcome(missing, extra_args) = "usage_error"
    /\ Exit("usage_error", {})
    /\ UNCHANGED <<missing, extra_args, loaded, sigs, sig_meta, inst, sr,
                   duration, out_nd, out_ndjson, out_meta, stdout, amVars,
                   synVars>>

\* the file each open() for reading is of
ReadPoints ==
    [open_signatures |-> "signatures",
     open_signature_meta |-> "signature_meta",
     open_instrument_spec |-> "instrument_spec"]

\* lines 33 and 17: open() of an input file succeeds
OpenInput ==
    /\ pc \in DOMAIN ReadPoints
    /\ handles' = handles \cup {ReadPoints[pc]}
    /\ pc' = "read_" \o ReadPoints[pc]
    /\ UNCHANGED <<status, missing, extra_args, loaded, sigs, sig_meta, inst, sr, duration,
                   out_nd, out_ndjson, out_meta, stdout, amVars, synVars>>

\* lines 33 and 17: open() of an input file raises
OpenInputFails ==
    /\ pc \in DOMAIN ReadPoints
    /\ Exit("io_error", {})
    /\ UNCHANGED <<missing, extra_args, loaded, sigs, sig_meta, inst, sr, duration, out_nd,
                   out_ndjson, out_meta, stdout, amVars, synVars>>

\* a slip: the file is read without a with block and never closed
LoadSignaturesLeak ==
    /\ pc = "read_signatures"
    /\ \E file \in SigFiles :
        /\ \A i \in 1..Len(file) : file[i].json_ok
        /\ sigs' = file
    /\ pc' = "open_signature_meta"
    /\ loaded' = loaded \cup {"signatures"}
    /\ UNCHANGED <<status, missing, extra_args, handles, sig_meta, inst, sr, duration,
                   out_nd, out_ndjson, out_meta, stdout, amVars, synVars>>

\* lines 33-34: ndjson.load reads every line; the with block closes the file
LoadSignatures ==
    /\ pc = "read_signatures"
    /\ \E file \in SigFiles :
        /\ \A i \in 1..Len(file) : file[i].json_ok
        /\ sigs' = file
    /\ handles' = handles \ {"signatures"}
    /\ pc' = "open_signature_meta"
    /\ loaded' = loaded \cup {"signatures"}
    /\ UNCHANGED <<status, missing, extra_args, sig_meta, inst, sr, duration, out_nd,
                   out_ndjson, out_meta, stdout, amVars, synVars>>

\* line 34: reading the file raises (an I/O or decoding error); the error
\* leaves the with block of line 33
LoadSignaturesReadFails ==
    /\ pc = "read_signatures"
    /\ Exit("io_error", {"signatures"})
    /\ UNCHANGED <<missing, extra_args, loaded, sigs, sig_meta, inst, sr,
                   duration, out_nd, out_ndjson, out_meta, stdout, amVars,
                   synVars>>

\* line 34: a line is not valid JSON; the error leaves the with block
LoadSignaturesFails ==
    /\ pc = "read_signatures"
    /\ \E file \in SigFiles : \E i \in 1..Len(file) : ~file[i].json_ok
    /\ Exit("parse_error", {"signatures"})
    /\ UNCHANGED <<missing, extra_args, loaded, sigs, sig_meta, inst, sr, duration, out_nd,
                   out_ndjson, out_meta, stdout, amVars, synVars>>

\* line 35: parse_key_value_am(path_am), then load_signatures returns
ReadSignatureMeta ==
    /\ pc = "read_signature_meta"
    /\ \E file \in MetaFiles : sig_meta' = parse_key_value_am(file)
    /\ handles' = handles \ {"signature_meta"}
    /\ pc' = "open_instrument_spec"
    /\ loaded' = loaded \cup {"signature_meta"}
    /\ UNCHANGED <<status, missing, extra_args, sigs, inst, sr, duration, out_nd,
                   out_ndjson, out_meta, stdout, amVars, synVars>>

\* lines 18-28: reading a key-value file raises (an I/O or decoding error);
\* the error leaves the with block of line 17
ReadKeyValueFails ==
    /\ pc \in {"read_signature_meta", "read_instrument_spec"}
    /\ Exit("io_error", {"signature_meta", "instrument_spec"})
    /\ UNCHANGED <<missing, extra_args, loaded, sigs, sig_meta, inst, sr, duration, out_nd,
                   out_ndjson, out_meta, stdout, amVars, synVars>>

\* line 64
ReadInstrumentSpec ==
    /\ pc = "read_instrument_spec"
    /\ \E file \in InstFiles : inst' = parse_key_value_am(file)
    /\ handles' = handles \ {"instrument_spec"}
    /\ pc' = "resolve"
    /\ loaded' = loaded \cup {"instrument_spec"}
    /\ UNCHANGED <<status, missing, extra_args, sigs, sig_meta, sr, duration, out_nd,
                   out_ndjson, out_meta, stdout, amVars, synVars>>

\* line 66: int(inst.get('SamplingRate', 4096)) where int() returns
resolve_sampling_rate(spec) ==
    int_value(DictGet(spec, "SamplingRate", IntVal(DefaultSamplingRate)))

\* lines 66-67
Resolve ==
    /\ pc = "resolve"
    /\ int_outcome(DictGet(inst, "SamplingRate", IntVal(DefaultSamplingRate)))
         = "ok"
    /\ sr' = resolve_sampling_rate(inst)
    /\ duration' = DictGet(inst, "Duration", FloatVal(<<1, 1>>))
    /\ pc' = "loop"
    /\ UNCHANGED <<status, missing, extra_args, loaded, handles, sigs, sig_meta,
                   inst, out_nd, out_ndjson, out_meta, stdout, amVars, synVars>>

\* line 66: int() of text that spells no integer raises ValueError
ResolveFails ==
    /\ pc = "resolve"
    /\ int_outcome(DictGet(inst, "SamplingRate", IntVal(DefaultSamplingRate)))
         # "ok"
    /\ Exit(int_outcome(DictGet(inst, "SamplingRate",
                                IntVal(DefaultSamplingRate))), {})
    /\ UNCHANGED <<missing, extra_args, loaded, sigs, sig_meta, inst, sr,
                   duration, out_nd, out_ndjson, out_meta, stdout, amVars,
                   synVars>>

\* the signature the loop of line 71 is at
NextSig == sigs[Len(out_nd) + 1]

\* lines 73-77 and 43 on this signature, in the order they evaluate: "ok", or
\* the first exception raised: float() of None (TypeError) or of text that
\* spells no number (ValueError), duration/8 of text (TypeError, evaluated
\* whether or not the signature has a width), 1.0/0 (ZeroDivisionError)
conversion_outcome(sig) ==
    LET f == float_outcome(SigGetOr(sig.frequency, FloatVal(<<0, 1>>)))
        w == float_outcome(SigGetOr(sig.width, FloatVal(<<0, 1>>)))
        a == float_outcome(SigGetOr(sig.amplitude, FloatVal(<<1, 1>>)))
    IN  IF f # "ok" THEN f
        ELSE IF ~IsNumber(duration) THEN "type_error"
        ELSE IF w # "ok" THEN w
        ELSE IF a # "ok" THEN a
        ELSE IF sr = 0 THEN "zero_division_error"
        ELSE "ok"

ConversionRaises(sig) == conversion_outcome(sig) # "ok"

\* lines 72-82: one pass of the loop
SynthesizeRecord ==
    /\ pc = "loop"
    /\ Len(out_nd) < Len(sigs)
    /\ ~ConversionRaises(NextSig)
    /\ \E draw \in NoiseDraws :
        LET sig == NextSig
            freq == float_value(SigGetOr(sig.frequency, FloatVal(<<0, 1>>)))
            width == float_value(SigGetOr(sig.width,
                         FloatVal(RatDiv(duration.q, <<8, 1>>))))
            amplitude == float_value(SigGetOr(sig.amplitude,
                                              FloatVal(<<1, 1>>)))
        IN  out_nd' = Append(out_nd,
                [label |-> record_label(sigs, sig, sig_meta),
                 sampling_rate |-> sr,
                 time_series |-> synthesize_signal(freq, width, amplitude,
                                                   sr, duration.q, draw)])
    /\ UNCHANGED <<pc, status, missing, extra_args, loaded, handles, sigs,
                   sig_meta, inst, sr, duration, out_ndjson, out_meta, stdout,
                   amVars, synVars>>

\* lines 73-77: a conversion, or the division of line 43, raises
SynthesizeRecordFails ==
    /\ pc = "loop"
    /\ Len(out_nd) < Len(sigs)
    /\ ConversionRaises(NextSig)
    /\ Exit(conversion_outcome(NextSig), {})
    /\ UNCHANGED <<missing, extra_args, loaded, sigs, sig_meta, inst, sr,
                   duration, out_nd, out_ndjson, out_meta, stdout, amVars,
                   synVars>>

\* a slip: the loop may stop before the last signature
LoopDoneEarly ==
    /\ pc = "loop"
    /\ Len(out_nd) <= Len(sigs)
    /\ pc' = "open_output_ndjson"
    /\ UNCHANGED <<status, missing, extra_args, loaded, handles, sigs, sig_meta, inst, sr,
                   duration, out_nd, out_ndjson, out_meta, stdout, amVars,
                   synVars>>

\* line 71: the loop has run over every signature
LoopDone ==
    /\ pc = "loop"
    /\ Len(out_nd) = Len(sigs)
    /\ pc' = "open_output_ndjson"
    /\ UNCHANGED <<status, missing, extra_args, loaded, handles, sigs, sig_meta, inst, sr,
                   duration, out_nd, out_ndjson, out_meta, stdout, amVars,
                   synVars>>

\* a slip: the output is opened before the loop has synthesized everything
OpenOutputNdjsonEarly ==
    /\ pc \in {"loop", "open_output_ndjson"}
    /\ out_ndjson' = [touched |-> TRUE, rows |-> <<>>]
    /\ handles' = handles \cup {"output_ndjson"}
    /\ pc' = "write_rows"
    /\ UNCHANGED <<status, missing, extra_args, loaded, sigs, sig_meta, inst, sr, duration,
                   out_nd, out_meta, stdout, amVars, synVars>>

\* line 83: open(args.output_ndjson, 'w') creates or truncates the file
OpenOutputNdjson ==
    /\ pc = "open_output_ndjson"
    /\ out_ndjson' = [touched |-> TRUE, rows |-> <<>>]
    /\ handles' = handles \cup {"output_ndjson"}
    /\ pc' = "write_rows"
    /\ UNCHANGED <<status, missing, extra_args, loaded, sigs, sig_meta, inst, sr, duration,
                   out_nd, out_meta, stdout, amVars, synVars>>

\* lines 83 and 90: open() of an output file raises
OpenOutputFails ==
    /\ pc \in {"open_output_ndjson", "open_output_meta"}
    /\ Exit("io_error", {})
    /\ UNCHANGED <<missing, extra_args, loaded, sigs, sig_meta, inst, sr, duration, out_nd,
                   out_ndjson, out_meta, stdout, amVars, synVars>>

\* a slip: each record is put before the ones already written
WriteRowPrepend ==
    /\ pc = "write_rows"
    /\ Len(out_ndjson.rows) < Len(out_nd)
    /\ out_ndjson' = [out_ndjson EXCEPT
                        !.rows = <<out_nd[Len(@) + 1]>> \o @]
    /\ UNCHANGED <<pc, status, missing, extra_args, loaded, handles, sigs, sig_meta, inst, sr,
                   duration, out_nd, out_meta, stdout, amVars, synVars>>

\* lines 85-86: the next record is written as one line
WriteRow ==
    /\ pc = "write_rows"
    /\ Len(out_ndjson.rows) < Len(out_nd)
    /\ out_ndjson' = [out_ndjson EXCEPT
                        !.rows = Append(@, out_nd[Len(@) + 1])]
    /\ UNCHANGED <<pc, status, missing, extra_args, loaded, handles, sigs, sig_meta, inst, sr,
                   duration, out_nd, out_meta, stdout, amVars, synVars>>

\* line 86: a write raises; the file keeps the lines written so far
WriteRowFails ==
    /\ pc = "write_rows"
    /\ Len(out_ndjson.rows) < Len(out_nd)
    /\ Exit("io_error", {"output_ndjson"})
    /\ UNCHANGED <<missing, extra_args, loaded, sigs, sig_meta, inst, sr, duration, out_nd,
                   out_ndjson, out_meta, stdout, amVars, synVars>>

\* lines 85 and 83: the loop ends and the with block closes the file
CloseOutputNdjson ==
    /\ pc = "write_rows"
    /\ Len(out_ndjson.rows) = Len(out_nd)
    /\ handles' = handles \ {"output_ndjson"}
    /\ pc' = "open_output_meta"
    /\ UNCHANGED <<status, missing, extra_args, loaded, sigs, sig_meta, inst, sr, duration,
                   out_nd, out_ndjson, out_meta, stdout, amVars, synVars>>

\* line 90: open(args.output_meta, 'w') creates or truncates the file
OpenOutputMeta ==
    /\ pc = "open_output_meta"
    /\ out_meta' = [touched |-> TRUE, chunks |-> <<>>]
    /\ handles' = handles \cup {"output_meta"}
    /\ pc' = "write_summary"
    /\ UNCHANGED <<status, missing, extra_args, loaded, sigs, sig_meta, inst, sr, duration,
                   out_nd, out_ndjson, stdout, amVars, synVars>>

\* lines 89-96: the six writes, then the with block closes the file
WriteSummary ==
    /\ pc = "write_summary"
    /\ out_meta' = [out_meta EXCEPT
                      !.chunks = summary_writes(inst, sr, Len(out_nd))]
    /\ handles' = handles \ {"output_meta"}
    /\ pc' = "print"
    /\ UNCHANGED <<status, missing, extra_args, loaded, sigs, sig_meta, inst, sr, duration,
                   out_nd, out_ndjson, stdout, amVars, synVars>>

\* lines 91-96: one of the six writes raises; the file keeps the earlier ones
WriteSummaryFails ==
    /\ pc = "write_summary"
    /\ \E k \in 0..5 :
        out_meta' = [out_meta EXCEPT
            !.chunks = SubSeq(summary_writes(inst, sr, Len(out_nd)), 1, k)]
    /\ Exit("io_error", {"output_meta"})
    /\ UNCHANGED <<missing, extra_args, loaded, sigs, sig_meta, inst, sr, duration, out_nd,
                   out_ndjson, stdout, amVars, synVars>>

\* lines 98-99, then main returns and the process exits with status 0
PrintDone ==
    /\ pc = "print"
    /\ stdout' = << "Wrote " \o Join(IntStr(Len(out_nd)))
                        \o " mock signals to <output-ndjson>",
                    "Wrote summary to <output-meta>" >>
    /\ pc' = "exit"
    /\ status' = "ok"
    /\ UNCHANGED <<missing, extra_args, loaded, handles, sigs, sig_meta, inst, sr, duration,
                   out_nd, out_ndjson, out_meta, amVars, synVars>>

Next ==
    \/ ParseArgs \/ ParseArgsHelp \/ ParseArgsFails
    \/ OpenInput \/ OpenInputFails
    \/ LoadSignatures \/ LoadSignaturesFails \/ LoadSignaturesReadFails
    \/ ReadSignatureMeta \/ ReadInstrumentSpec \/ ReadKeyValueFails
    \/ Resolve \/ ResolveFails
    \/ SynthesizeRecord \/ SynthesizeRecordFails \/ LoopDone
    \/ OpenOutputNdjson \/ OpenOutputMeta \/ OpenOutputFails
    \/ WriteRow \/ WriteRowFails \/ CloseOutputNdjson
    \/ WriteSummary \/ WriteSummaryFails
    \/ PrintDone

Spec == Init /\ [][Next]_vars

\* the exit status of the process: 0 after main returns or the help is
\* printed, 2 from argparse's error(), 1 after an uncaught exception
ExitCode ==
    CASE status \in {"ok", "help"} -> 0
      [] status = "usage_error" -> 2
      [] OTHER -> 1


----------------------------------------------------------------------------
(* Properties of main(), under Spec *)

Succeeded == pc = "exit" /\ status = "ok"

AllInputs == {"signatures", "signature_meta", "instrument_spec"}

\* C1: after a successful run the NDJSON output holds as many records as
\* there were input signatures, and the summary's InjectionCount is that
\* number.
C1_CountsAgree ==
    Succeeded =>
        /\ Len(out_ndjson.rows) = Len(sigs)
        /\ Len(out_meta.chunks) = 6
        /\ out_meta.chunks[5]
             = "InjectionCount = " \o Join(IntStr(Len(sigs))) \o " "

\* a successful run on a list that repeats a record
C1_Witness ==
    /\ Succeeded
    /\ Len(sigs) = 2
    /\ sigs[1] = sigs[2]
    /\ Len(out_ndjson.rows) = 2

\* the label the claim gives a signature without `label` at position i
GeneratedLabel(i) ==
    StrVal((IF "TheoryVariant" \in DOMAIN sig_meta
            THEN PyStr(sig_meta["TheoryVariant"]) ELSE <<"s", "i", "g">>)
           \o <<"_">> \o IntStr(i))

\* C2: the record at position i of a signature that lacks `label` is
\* labelled <TheoryVariant>_<i>, also when the list repeats a signature.
C2_LabelByPosition ==
    \A i \in 1..Len(out_nd) :
        sigs[i].label.t = "absent" => out_nd[i].label = GeneratedLabel(i)

\* the sampling rate the instrument spec resolves to
ResolvedRate ==
    IF "SamplingRate" \in DOMAIN inst
    THEN int_value(inst["SamplingRate"]) ELSE 4096

FieldOr(v, default) == IF v.t = "absent" THEN default ELSE float_value(v)

\* C5: the i-th output record is the one synthesized from the i-th input
\* signature, carries that signature's label when it supplies a non-empty
\* one, and carries the resolved sampling rate (4096 by default).
C5_OrderAndRate ==
    Succeeded =>
        /\ Len(out_ndjson.rows) = Len(sigs)
        /\ \A i \in 1..Len(sigs) :
            LET row == out_ndjson.rows[i]
                sig == sigs[i]
            IN  /\ row.sampling_rate = ResolvedRate
                /\ (sig.label.t = "str" /\ sig.label.s # <<>>)
                       => row.label = sig.label
                /\ row.time_series.freq = FieldOr(sig.frequency, <<0, 1>>)
                /\ row.time_series.amp = FieldOr(sig.amplitude, <<1, 1>>)
                /\ row.time_series.std =
                       (IF RatGt(FieldOr(sig.width, <<0, 1>>), <<0, 1>>)
                        THEN float_value(sig.width)
                        ELSE RatDiv(duration.q, <<8, 1>>))

\* a successful run on two different signatures, the second labelled, with
\* no SamplingRate in the instrument spec
C5_Witness ==
    /\ Succeeded
    /\ Len(sigs) = 2
    /\ sigs[1] # sigs[2]
    /\ sigs[2].label = StrVal(<<"s", "1">>)
    /\ out_ndjson.rows[2].time_series.freq = <<10, 1>>
    /\ "SamplingRate" \notin DOMAIN inst
    /\ out_ndjson.rows[2].sampling_rate = 4096

\* C6 as stated: with a required flag missing the process ends with a
\* non-zero usage error, having read no input and opened no output.
C6_UsageError ==
    missing # {} =>
        /\ pc \in {"parse_args", "exit"}
        /\ pc = "exit" => status = "usage_error" /\ ExitCode # 0
        /\ loaded = {} /\ handles = {}
        /\ ~out_ndjson.touched /\ ~out_meta.touched

\* the command line holds a help request that the scan reaches: nothing
\* before it but options the parser does not know
HelpReached ==
    \E i \in 1..Len(extra_args) :
        /\ extra_args[i] = "--help"
        /\ \A j \in 1..(i - 1) : extra_args[j] = "--bogus"

\* C6 amended: with a required flag missing the process has read no input and
\* opened no output, and it ends with a non-zero usage error unless the scan
\* of the command line reaches a help request.
C6_UsageErrorUnlessHelp ==
    missing # {} =>
        /\ pc \in {"parse_args", "exit"}
        /\ (pc = "exit" /\ ~HelpReached)
              => status = "usage_error" /\ ExitCode # 0
        /\ loaded = {} /\ handles = {}
        /\ ~out_ndjson.touched /\ ~out_meta.touched

\* the process has exited with a usage error for the lack of --output-meta,
\* on a command line whose --help follows an option that lacks its value
C6_Witness ==
    /\ pc = "exit"
    /\ missing = {"output_meta"}
    /\ extra_args = <<"--signatures", "--help">>
    /\ status = "usage_error"
    /\ ExitCode = 2

\* C8: after a successful run the summary file is the one line
\* `[ InstrumentType = <v>, SamplingRate = <v>, NoiseModel = <v>,
\* InjectionCount = <v> ]` and a newline, with None for an omitted
\* InstrumentType or NoiseModel.
C8_SummaryLine ==
    Succeeded =>
        LET type == IF "InstrumentType" \in DOMAIN inst
                    THEN Join(PyStr(inst["InstrumentType"])) ELSE "None"
            noise == IF "NoiseModel" \in DOMAIN inst
                     THEN Join(PyStr(inst["NoiseModel"])) ELSE "None"
            text == Concat(out_meta.chunks)
        IN  /\ text = "[ InstrumentType = " \o type
                        \o ", SamplingRate = " \o Join(IntStr(ResolvedRate))
                        \o ", NoiseModel = " \o noise
                        \o ", InjectionCount = "
                        \o Join(IntStr(Len(out_ndjson.rows))) \o " ]\n"
            /\ (/\ ResolvedRate = 16
                /\ "InstrumentType" \notin DOMAIN inst
                /\ "NoiseModel" \notin DOMAIN inst
                /\ Len(out_ndjson.rows) = 1)
               => text = "[ InstrumentType = None, SamplingRate = 16, NoiseModel = None, InjectionCount = 1 ]\n"

\* a successful run on one signature at SamplingRate 16 with neither
\* InstrumentType nor NoiseModel
C8_Witness ==
    /\ Succeeded
    /\ sr = 16
    /\ DOMAIN inst = {"SamplingRate"}
    /\ Len(sigs) = 1
    /\ out_meta.chunks # <<>>

\* C9: at most one file handle is open at any time, and none is open once
\* the process has ended, whether it succeeded or failed.
C9_OneHandle ==
    /\ Cardinality(handles) <= 1
    /\ pc = "exit" => handles = {}

\* the process has ended on a write error raised while the NDJSON output
\* was open, some rows written
C9_Witness ==
    /\ pc = "exit"
    /\ status = "io_error"
    /\ out_ndjson.touched
    /\ out_ndjson.rows # <<>>
    /\ Len(out_ndjson.rows) < Len(out_nd)
    /\ handles = {}

\* C10: the NDJSON output is opened only after the three inputs are loaded
\* and every signature is synthesized; a run that fails before that leaves
\* both outputs untouched; the summary is opened only after the NDJSON
\* output is completely written and closed.
C10_OutputsLast ==
    /\ out_ndjson.touched =>
        loaded = AllInputs /\ Len(out_nd) = Len(sigs)
    /\ out_meta.touched =>
        /\ out_ndjson.touched
        /\ out_ndjson.rows = out_nd
        /\ "output_ndjson" \notin handles
    /\ status \in {"usage_error", "parse_error", "value_error", "type_error",
                   "zero_division_error"}
        => ~out_ndjson.touched /\ ~out_meta.touched
    /\ (status = "io_error" /\ loaded # AllInputs)
        => ~out_ndjson.touched /\ ~out_meta.touched

\* the run has failed converting a field of its second signature, the first
\* one synthesized
C10_Witness ==
    /\ pc = "exit"
    /\ status = "type_error"
    /\ Len(out_nd) = 1
    /\ Len(sigs) = 2
    /\ ~out_ndjson.touched /\ ~out_meta.touched

=============================================================================
